---- MODULE Spec2Model ----
(***************************************************************************)
(* A model of the Character widget of character.py (positioning and        *)
(* animation playback) and of the key handlers of exemple1.py (grid        *)
(* movement) and exemple2.py (free movement).                              *)
(*                                                                         *)
(* Positioning, the animation registry and playback are explored by three  *)
(* specifications over the same variables: SpecPos drives set_position /   *)
(* move / the key handler; SpecReg drives registration, lookup and the     *)
(* caller's mutations of the registered lists; SpecPlay starts from a      *)
(* Character constructed with animations and drives play_animation, the    *)
(* timer callbacks and the caller's mutations.                             *)
(***************************************************************************)
EXTENDS Integers, Sequences, FiniteSets, TLC

VARIABLES
    app,            \* which program owns the Character: "none" (a bare Character),
                    \* "exemple1" or "exemple2"
    frame,          \* Character.frame: NoFrame or a frame with a size
    grid_cells,     \* Character.grid_cells: NoGrid or a list of rows (each row given by its length)
    position,       \* Character.position
    placement,      \* geometry of Character._wrapper as last set by place()
    call,           \* what the last step was: the call made [op, arg], or AfterCall when the
                    \* event loop ran (time passed, or a callback scheduled with after())
    ret,            \* what the last call or callback produced: "True", "False",
                    \* "None", or the exception it raised
    label,          \* exemple1, exemple2: position_label: text, text_color, and timers, the
                    \* pending after() callbacks that configure it, in creation order:
                    \* [delay, callback]
    heap,           \* the caller-built list objects the registry holds: list id -> its AnimationFrames
    animations,     \* Character.animations: name -> list id (the dict stores the caller's list itself)
    active_name,    \* Character._active_animation_name
    image,          \* the image the label displays (filename), "none" before the first frame
    timers,         \* pending after() callbacks of run, in creation order: [delay, frames, index]
                    \* (delay: milliseconds left until the callback is due)
    play,           \* the last play_animation call that started a playback: [name, frames, solo]
    clock,          \* milliseconds from that call to the last image it displayed
    log,            \* the images displayed since that call, with the time of each: [at, image]
                    \* (clock and log are kept for an undisturbed playback only: one started with
                    \* no callback pending and whose list was not mutated since)
    dirty,          \* whether a caller mutated that playback's list since that call
    got             \* the list get_animation_frames returned last (0: none)

posVars == <<app, frame, grid_cells, position, placement, label>>
animVars == <<heap, animations, active_name, image, timers, play, clock, log, dirty, got>>
vars == <<app, frame, grid_cells, position, placement, call, ret, label,
          heap, animations, active_name, image, timers, play, clock, log, dirty, got>>

----------------------------------------------------------------------------
(* Bounds of the exploration *)

\* set_position arguments and constructor positions range over -1..MaxCoord
MaxCoord == 3
\* grids have at most MaxRows rows ...
MaxRows == 2
\* ... of at most MaxCols cells each (rows may differ in length)
MaxCols == 2
\* exemple2: the walk is cut off WalkMargin pixels outside the play area
WalkMargin == 40
\* callers build frame lists of at most MaxFrames frames
MaxFrames == 2
\* play_animation is not called while MaxTimers callbacks are pending
MaxTimers == 2
\* exemple1, exemple2: no key is pressed while MaxCallbacks callbacks of the label are pending
MaxCallbacks == 2

----------------------------------------------------------------------------
(* Program constants *)

DEFAULT_SIZE == 54
CELL_SIZE == 80
STEP_PIXELS == 15
PLAY_AREA_WIDTH == 560
PLAY_AREA_HEIGHT == 500

INITIAL_POSITION == <<20, 20>>

MOVEMENT_KEYS ==
    [k \in {"Up", "Down", "Left", "Right", "w", "s", "a", "d"} |->
        CASE k \in {"Up", "w"}    -> <<0, -STEP_PIXELS>>
          [] k \in {"Down", "s"}  -> <<0, STEP_PIXELS>>
          [] k \in {"Left", "a"}  -> <<-STEP_PIXELS, 0>>
          [] k \in {"Right", "d"} -> <<STEP_PIXELS, 0>>]

\* exemple1.py, lines 72-86
GRID_DIMENSION == 6

GRID_INITIAL_POSITION == <<1, 0>>

GRID_MOVEMENT_KEYS ==
    [k \in {"Up", "Down", "Left", "Right", "w", "s", "a", "d"} |->
        CASE k \in {"Up", "w"}    -> <<-1, 0>>
          [] k \in {"Down", "s"}  -> <<1, 0>>
          [] k \in {"Left", "a"}  -> <<0, -1>>
          [] k \in {"Right", "d"} -> <<0, 1>>]

DEFAULT_DURATION == 250
SHORT_DURATION == 100
LONG_DURATION == 3000

\* exemple3's "blink" animation: the frames callers build their lists from
BLINK ==
    << [filename |-> "blue_square_blink_0001.png", duration |-> DEFAULT_DURATION],
       [filename |-> "blue_square_blink_0002.png", duration |-> SHORT_DURATION],
       [filename |-> "blue_square_blink_0003.png", duration |-> SHORT_DURATION],
       [filename |-> "blue_square_blink_0004.png", duration |-> DEFAULT_DURATION],
       [filename |-> "blue_square_blink_0001.png", duration |-> LONG_DURATION] >>

Names == {"idle", "blink"}

\* after(200, ...): exemple1.py lines 194, 213, exemple2.py line 202
LABEL_DELAY == 200

DEFAULT_COLOR == "#7FBADC"
FLASH_COLOR == "#FF6B6B"

----------------------------------------------------------------------------
(* Values *)

NoFrame == [none |-> TRUE, width |-> 0, height |-> 0]
Frame(w, h) == [none |-> FALSE, width |-> w, height |-> h]

NoGrid == [none |-> TRUE, rows |-> <<>>]
Grid(rowLens) == [none |-> FALSE, rows |-> rowLens]

\* Character.animations after __init__ with no animations: {}
EmptyRegistry == [n \in {} |-> 0]

\* no playback was started yet
NoPlay == [name |-> "None", frames |-> 0, solo |-> TRUE]

\* The wrapper before any place(): not managed by the placer.
Unplaced == [in_ |-> "unplaced", cell |-> <<>>, x |-> 0, y |-> 0]

\* the value of call after a step of the event loop
AfterCall == [op |-> "after", arg |-> <<0, 0>>]

\* the demos' key presses arrive at multiples of TimeStep milliseconds: the
\* grain that tells the label's delay and the idle frame's duration apart
TimeStep == DEFAULT_DURATION - LABEL_DELAY

Coords == -1 .. MaxCoord
Positions == Coords \X Coords
Offsets == {-1, 0, 1} \X {-1, 0, 1}

RowLists == UNION {[1 .. n -> 0 .. MaxCols] : n \in 0 .. MaxRows}

\* list(list) lengths as the code reads them (0-based row index)
NumRows(g) == Len(g.rows)
RowLen(g, row) == g.rows[row + 1]

----------------------------------------------------------------------------
(* Character.set_position, Character.move, Character._update_position *)

\* set_position, lines 168-172: 0 <= row < rows and 0 <= col < cols,
\* cols being the length of the FIRST row
InBounds(g, p) ==
    LET row  == p[1]
        col  == p[2]
        rows == NumRows(g)
        cols == IF rows # 0 THEN RowLen(g, 0) ELSE 0
    IN  0 <= row /\ row < rows /\ 0 <= col /\ col < cols

\* _update_position's early return, line 198 (tests the length of the TARGET row)
CellMissing(g, p) ==
    LET row == p[1]
        col == p[2]
    IN  row < 0 \/ col < 0 \/ row >= NumRows(g) \/ col >= RowLen(g, row)

\* place() centred on the target cell, lines 201-213: the cell's origin stays
\* symbolic (the cell's identity), the centring offset is computed
CellPlacement(p) ==
    [in_ |-> "master", cell |-> p,
     x |-> (CELL_SIZE - DEFAULT_SIZE) \div 2,
     y |-> (CELL_SIZE - DEFAULT_SIZE) \div 2]

\* place(in_=self.frame, x=x, y=y), lines 216-219
FramePlacement(p) == [in_ |-> "frame", cell |-> <<>>, x |-> p[1], y |-> p[2]]

\* _update_position with the final else branch returning silently
UpdatePositionSilent(g, f, p, old) ==
    IF ~g.none
    THEN [raised |-> FALSE, placement |-> IF CellMissing(g, p) THEN old ELSE CellPlacement(p)]
    ELSE IF ~f.none
         THEN [raised |-> FALSE, placement |-> FramePlacement(p)]
         ELSE [raised |-> FALSE, placement |-> old]

\* _update_position with the two layout branches tested in the other order
UpdatePositionFrameFirst(g, f, p, old) ==
    IF ~f.none
    THEN [raised |-> FALSE, placement |-> FramePlacement(p)]
    ELSE IF ~g.none
         THEN [raised |-> FALSE, placement |-> IF CellMissing(g, p) THEN old ELSE CellPlacement(p)]
         ELSE [raised |-> TRUE, placement |-> old]

\* _update_position, lines 194-222: p is self.position, old the placement so far
UpdatePosition(g, f, p, old) ==
    IF ~g.none
    THEN [raised |-> FALSE, placement |-> IF CellMissing(g, p) THEN old ELSE CellPlacement(p)]
    ELSE IF ~f.none
         THEN [raised |-> FALSE, placement |-> FramePlacement(p)]
         ELSE [raised |-> TRUE, placement |-> old]

\* set_position with the bounds test extended to the frame's size in frame mode
SetPositionResultFrameBounded(g, f, cur, old, p) ==
    IF \/ ~g.none /\ ~InBounds(g, p)
       \/ g.none /\ ~f.none /\ ~(p[1] \in 0 .. f.width /\ p[2] \in 0 .. f.height)
    THEN [ret |-> "False", position |-> cur, placement |-> old]
    ELSE LET u == UpdatePosition(g, f, p, old)
         IN  [ret |-> IF u.raised THEN "RuntimeError" ELSE "True",
              position |-> p, placement |-> u.placement]

\* set_position, lines 167-177: the outcome of the call in a given state
SetPositionResult(g, f, cur, old, p) ==
    IF ~g.none /\ ~InBounds(g, p)
    THEN [ret |-> "False", position |-> cur, placement |-> old]
    ELSE LET u == UpdatePosition(g, f, p, old)
         IN  [ret |-> IF u.raised THEN "RuntimeError" ELSE "True",
              position |-> p, placement |-> u.placement]

\* move's target with the two offset components swapped
MoveTargetSwapped(cur, offset) == <<cur[1] + offset[2], cur[2] + offset[1]>>

\* move, lines 190-192: (x + dx, y + dy)
MoveTarget(cur, offset) == <<cur[1] + offset[1], cur[2] + offset[2]>>

\* move, line 192: set_position on the target
MoveResult(g, f, cur, old, offset) ==
    SetPositionResult(g, f, cur, old, MoveTarget(cur, offset))

----------------------------------------------------------------------------
(* Initial states: the state after construction *)

\* Character.__init__, lines 103-111: nothing is validated, nothing is placed
InitBare ==
    /\ app = "none"
    /\ frame \in {NoFrame, Frame(2, 2)}
    /\ grid_cells \in {NoGrid} \cup {Grid(r) : r \in RowLists}
    /\ position \in Positions
    /\ placement = Unplaced
    /\ call = [op |-> "__init__", arg |-> position]
    /\ ret = "None"
    /\ label = [text |-> <<0, 0>>, color |-> DEFAULT_COLOR, timers |-> <<>>]
    /\ heap = <<>>
    /\ animations = EmptyRegistry
    /\ active_name = "None"
    /\ image = "none"
    /\ timers = <<>>
    /\ play = NoPlay
    /\ clock = 0
    /\ log = <<>>
    /\ dirty = FALSE
    /\ got = 0

\* FreeMovementApp.__init__: the character is built on the play area with the
\* default position (0, 0), then _spawn_character sets INITIAL_POSITION
InitExemple2 ==
    LET f == Frame(PLAY_AREA_WIDTH, PLAY_AREA_HEIGHT)
        r == SetPositionResult(NoGrid, f, <<0, 0>>, Unplaced, INITIAL_POSITION)
    IN  /\ app = "exemple2"
        /\ frame = f
        /\ grid_cells = NoGrid
        /\ position = r.position
        /\ placement = r.placement
        /\ call = [op |-> "set_position", arg |-> INITIAL_POSITION]
        /\ ret = r.ret
            /\ label = [text |-> INITIAL_POSITION, color |-> DEFAULT_COLOR, timers |-> <<>>]
        \* FreeMovementCharacter registers "idle" (one frame); _spawn_character plays it
        /\ heap = << <<BLINK[1]>> >>
        /\ animations = ("idle" :> 1)
        /\ active_name = "idle"
        /\ image = "none"
        /\ timers = << [delay |-> BLINK[1].duration, frames |-> 1, index |-> 0] >>
        /\ play = [name |-> "idle", frames |-> 1, solo |-> TRUE]
        /\ clock = 0
        /\ log = <<>>
        /\ dirty = FALSE
        /\ got = 0

\* GridGameApp._create_cells_grid, exemple1.py lines 134-153: load_cells(array=
\* GRID_DIMENSION) builds, and get_cells_grid() returns, a square matrix of
\* GRID_DIMENSION rows of GRID_DIMENSION cells
CellsGrid == Grid([i \in 1 .. GRID_DIMENSION |-> GRID_DIMENSION])

\* GridGameApp.__init__: GridCharacter is built on the cells grid with the
\* default position (0, 0), then _spawn_character sets INITIAL_POSITION and
\* plays "idle"
InitExemple1 ==
    LET r == SetPositionResult(CellsGrid, NoFrame, <<0, 0>>, Unplaced, GRID_INITIAL_POSITION)
    IN  /\ app = "exemple1"
        /\ frame = NoFrame
        /\ grid_cells = CellsGrid
        /\ position = r.position
        /\ placement = r.placement
        /\ call = [op |-> "set_position", arg |-> GRID_INITIAL_POSITION]
        /\ ret = r.ret
        /\ label = [text |-> GRID_INITIAL_POSITION, color |-> DEFAULT_COLOR, timers |-> <<>>]
        /\ heap = << <<BLINK[1]>> >>
        /\ animations = ("idle" :> 1)
        /\ active_name = "idle"
        /\ image = "none"
        /\ timers = << [delay |-> BLINK[1].duration, frames |-> 1, index |-> 0] >>
        /\ play = [name |-> "idle", frames |-> 1, solo |-> TRUE]
        /\ clock = 0
        /\ log = <<>>
        /\ dirty = FALSE
        /\ got = 0

InitPos == InitBare \/ InitExemple2 \/ InitExemple1

----------------------------------------------------------------------------
(* Actions *)

\* a caller invokes set_position(p) on a bare Character
SetPosition(p) ==
    /\ app = "none"
    /\ LET r == SetPositionResult(grid_cells, frame, position, placement, p)
       IN  /\ position' = r.position
           /\ placement' = r.placement
           /\ ret' = r.ret
    /\ call' = [op |-> "set_position", arg |-> p]
    /\ UNCHANGED <<app, frame, grid_cells, label, animVars>>

\* the positions a bare Character's walk is cut off at
InRange(p) ==
    /\ p[1] \in -(MaxCoord + 1) .. (MaxCoord + 1)
    /\ p[2] \in -(MaxCoord + 1) .. (MaxCoord + 1)

\* a caller invokes move(offset) on a bare Character
Move(offset) ==
    /\ app = "none"
    /\ InRange(MoveTarget(position, offset))
    /\ LET r == MoveResult(grid_cells, frame, position, placement, offset)
       IN  /\ position' = r.position
           /\ placement' = r.placement
           /\ ret' = r.ret
    /\ call' = [op |-> "move", arg |-> offset]
    /\ UNCHANGED <<app, frame, grid_cells, label, animVars>>

\* a caller invokes show(**kwargs) on a bare Character, lines 145-152:
\* _wrapper.grid(**kwargs) hands the wrapper to the grid geometry manager, so
\* the placer no longer holds it; the position is not touched
Show ==
    /\ app = "none"
    /\ placement' = Unplaced
    /\ call' = [op |-> "show", arg |-> <<0, 0>>]
    /\ ret' = "None"
    /\ UNCHANGED <<app, frame, grid_cells, position, label, animVars>>

\* the positions exemple2's walk is cut off at
InWalk(p) ==
    /\ p[1] \in -WalkMargin .. (PLAY_AREA_WIDTH + WalkMargin)
    /\ p[2] \in -WalkMargin .. (PLAY_AREA_HEIGHT + WalkMargin)

\* FreeMovementApp._handle_keypress, exemple2.py lines 174-186, with
\* _flash_invalid_move (198-202) and _update_position_label (192-196)
HandleKeypress(k) ==
    /\ app = "exemple2"
    /\ IF k \notin DOMAIN MOVEMENT_KEYS
       THEN UNCHANGED <<position, placement, ret, call, label>>
       ELSE LET offset == MOVEMENT_KEYS[k]
                r == MoveResult(grid_cells, frame, position, placement, offset)
            IN  /\ InWalk(MoveTarget(position, offset))
                /\ Len(label.timers) < MaxCallbacks
                /\ position' = r.position
                /\ placement' = r.placement
                /\ ret' = r.ret
                /\ call' = [op |-> "move", arg |-> offset]
                /\ label' = IF r.ret # "True"
                            THEN [label EXCEPT
                                    !.color = FLASH_COLOR,
                                    !.timers = Append(@, [delay |-> LABEL_DELAY, callback |-> "reset"])]
                            ELSE [label EXCEPT !.text = r.position]
    /\ UNCHANGED <<app, frame, grid_cells, animVars>>

\* GridGameApp._on_keypress, exemple1.py lines 185-197, with
\* _flash_invalid_move (209-213): the refresh of the label's text is scheduled
\* (line 194), then the flash is shown when the position did not change
OnKeypress(k) ==
    /\ app = "exemple1"
    /\ IF k \notin DOMAIN GRID_MOVEMENT_KEYS
       THEN UNCHANGED <<position, placement, ret, call, label>>
       ELSE LET movement_offset == GRID_MOVEMENT_KEYS[k]
                previous_position == position
                r == MoveResult(grid_cells, frame, position, placement, movement_offset)
                update == [delay |-> LABEL_DELAY, callback |-> "update"]
                reset == [delay |-> LABEL_DELAY, callback |-> "reset"]
            IN  /\ Len(label.timers) < MaxCallbacks
                /\ position' = r.position
                /\ placement' = r.placement
                /\ ret' = r.ret
                /\ call' = [op |-> "move", arg |-> movement_offset]
                /\ label' = IF r.position = previous_position
                            THEN [label EXCEPT !.color = FLASH_COLOR,
                                               !.timers = @ \o <<update, reset>>]
                            ELSE [label EXCEPT !.timers = Append(@, update)]
    /\ UNCHANGED <<app, frame, grid_cells, animVars>>

\* whether a callback is due among the pending ones
Due(ts) == \E i \in 1 .. Len(ts) : ts[i].delay = 0

\* TimeStep milliseconds later
Later(ts) == [i \in 1 .. Len(ts) |-> [ts[i] EXCEPT !.delay = @ - TimeStep]]

\* the demos' event loop waits TimeStep milliseconds: no callback is due and
\* some are pending
Tick ==
    /\ app # "none"
    /\ timers # <<>> \/ label.timers # <<>>
    /\ ~Due(timers) /\ ~Due(label.timers)
    /\ timers' = Later(timers)
    /\ label' = [label EXCEPT !.timers = Later(@)]
    /\ call' = AfterCall
    /\ ret' = "None"
    /\ UNCHANGED <<app, frame, grid_cells, position, placement,
                   heap, animations, active_name, image, play, clock, log, dirty, got>>

\* the demos' event loop runs the label's callback that is due:
\* _update_position_label (exemple1.py lines 203-207), or the end of a flash
\* (exemple1.py line 213, exemple2.py line 202). Callbacks due together run in
\* creation order; the idle animation's was created first.
LabelCallback ==
    /\ app # "none"
    /\ label.timers # <<>>
    /\ label.timers[1].delay = 0
    /\ ~Due(timers)
    /\ label' = IF label.timers[1].callback = "update"
                THEN [label EXCEPT !.text = position, !.timers = Tail(@)]
                ELSE [label EXCEPT !.color = DEFAULT_COLOR, !.timers = Tail(@)]
    /\ call' = AfterCall
    /\ ret' = "None"
    /\ UNCHANGED <<app, frame, grid_cells, position, placement, animVars>>

Keys == DOMAIN MOVEMENT_KEYS \cup {"space"}

----------------------------------------------------------------------------
(* Animation, Character._register_animations, get_animation_frames,         *)
(* play_animation and its timer callback run                                *)

\* Animation.__init__, lines 42-43: `if not frames: raise ValueError`
AnimationRaises(fs) == Len(fs) = 0

\* the list an Animation argument carries: one the registry already holds
\* (id > 0), or one the caller has just built from the first len frames of
\* BLINK (id = 0)
FramesOf(hp, a) == IF a.frames.id = 0 THEN SubSeq(BLINK, 1, a.frames.len) ELSE hp[a.frames.id]

\* self.animations[animation.name] = animation.frames, line 237: the dict
\* holds the caller's list object itself; a list built for the call becomes
\* reachable from the Character here and gets the next id
Store(reg, hp, a) ==
    IF a.frames.id = 0
    THEN [animations |-> (a.name :> Len(hp) + 1) @@ reg, heap |-> Append(hp, FramesOf(hp, a))]
    ELSE [animations |-> (a.name :> a.frames.id) @@ reg, heap |-> hp]

\* _register_animations storing every animation, a name already present included
RECURSIVE RegisterLoopOverwrite(_, _, _)
RegisterLoopOverwrite(reg, hp, anims) ==
    IF anims = <<>>
    THEN [animations |-> reg, heap |-> hp, raised |-> FALSE]
    ELSE LET st == Store(reg, hp, Head(anims))
         IN  RegisterLoopOverwrite(st.animations, st.heap, Tail(anims))

\* _register_animations, lines 234-237: the animations are taken in order, the
\* first one whose name is present raises, those before it stay registered
RECURSIVE RegisterLoop(_, _, _)
RegisterLoop(reg, hp, anims) ==
    IF anims = <<>>
    THEN [animations |-> reg, heap |-> hp, raised |-> FALSE]
    ELSE IF Head(anims).name \in DOMAIN reg
         THEN [animations |-> reg, heap |-> hp, raised |-> TRUE]
         ELSE LET st == Store(reg, hp, Head(anims))
              IN  RegisterLoop(st.animations, st.heap, Tail(anims))

\* play_animation, line 143: self.after(frames[0].duration, run, 0)
FirstDelay(fs) == fs[1].duration

\* run rescheduling itself after every frame
RunSchedulesNextAlways(fs, frame_index) == TRUE

\* run, line 140: frame_index < len(frames) - 1
RunSchedulesNext(fs, frame_index) == frame_index < Len(fs) - 1

\* run, line 141: the next callback is due after the duration of the frame just shown
NextDelay(fs, frame_index) == fs[frame_index + 1].duration

\* the Tk timer queue: the callback due first, the oldest of those due together
DueDelay(ts) == CHOOSE d \in {ts[i].delay : i \in 1 .. Len(ts)} :
                    \A i \in 1 .. Len(ts) : d <= ts[i].delay
DueIndex(ts) == CHOOSE j \in 1 .. Len(ts) :
                    /\ ts[j].delay = DueDelay(ts)
                    /\ \A i \in 1 .. j - 1 : ts[i].delay # DueDelay(ts)

\* the queue once the due callback is taken out and its delay has elapsed
Remaining(ts) ==
    LET j == DueIndex(ts)
        d == DueDelay(ts)
        keep == SubSeq(ts, 1, j - 1) \o SubSeq(ts, j + 1, Len(ts))
    IN  [i \in 1 .. Len(keep) |-> [keep[i] EXCEPT !.delay = @ - d]]

----------------------------------------------------------------------------
(* Initial states of the registry exploration: a frame-mode Character       *)
(* constructed without animations                                           *)

InitReg ==
    /\ app = "none"
    /\ frame = Frame(2, 2)
    /\ grid_cells = NoGrid
    /\ position = <<0, 0>>
    /\ placement = Unplaced
    /\ call = [op |-> "__init__", arg |-> <<0, 0>>]
    /\ ret = "None"
    /\ label = [text |-> <<0, 0>>, color |-> DEFAULT_COLOR, timers |-> <<>>]
    /\ heap = <<>>
    /\ animations = EmptyRegistry
    /\ active_name = "None"
    /\ image = "none"
    /\ timers = <<>>
    /\ play = NoPlay
    /\ clock = 0
    /\ log = <<>>
    /\ dirty = FALSE
    /\ got = 0

\* the arguments of a registration: one Animation with a name and a list (one
\* already registered, or a new one of 0..MaxFrames frames), or two
\* Animations with new lists of MaxFrames frames
AnimationArgs(hp) ==
    LET Held == {[id |-> i, len |-> Len(hp[i])] : i \in 1 .. Len(hp)}
        New  == {[id |-> 0, len |-> n] : n \in 0 .. MaxFrames}
        One  == [name : Names, frames : Held \cup New]
        Both == [name : Names, frames : {[id |-> 0, len |-> MaxFrames]}]
    IN  {<<a>> : a \in One} \cup {<<a, b>> : a \in Both, b \in Both}

\* character._register_animations(Animation(n1, l1), ...): the Animation
\* constructors run first (lines 42-45), then the loop (lines 234-237)
RegisterAnimations(args) ==
    /\ app = "none"
    /\ IF \E i \in 1 .. Len(args) : AnimationRaises(FramesOf(heap, args[i]))
       THEN /\ ret' = "ValueError: empty"
            /\ UNCHANGED <<animations, heap>>
       ELSE LET r == RegisterLoop(animations, heap, args)
            IN  /\ animations' = r.animations
                /\ heap' = r.heap
                /\ ret' = IF r.raised THEN "ValueError: duplicate" ELSE "None"
    /\ got' = 0
    /\ UNCHANGED <<posVars, call, active_name, image, timers, play, clock, log, dirty>>

\* get_animation_frames, line 249: the registered list itself is returned
GetAnimationFrames(name) ==
    /\ app = "none"
    /\ IF name \in DOMAIN animations
       THEN got' = animations[name] /\ ret' = "None"
       ELSE got' = 0 /\ ret' = "KeyError"
    /\ UNCHANGED <<posVars, call, heap, animations, active_name, image, timers, play, clock, log, dirty>>

\* what a caller can do to a list it holds
ListOps == {"append", "pop", "clear"}

\* append adds the next frame of BLINK
Mutated(fs, op) ==
    CASE op = "append" -> Append(fs, BLINK[Len(fs) + 1])
      [] op = "pop"    -> SubSeq(fs, 1, Len(fs) - 1)
      [] op = "clear"  -> <<>>

\* the caller mutates a list it built (and passed to Animation) or got back
\* from get_animation_frames: the registry holds the same object
MutateList(l, op) ==
    /\ app = "none"
    /\ IF op = "append" THEN Len(heap[l]) < MaxFrames ELSE Len(heap[l]) > 0
    /\ heap' = [heap EXCEPT ![l] = Mutated(@, op)]
    /\ dirty' = (dirty \/ l = play.frames)
    /\ IF l = play.frames
       THEN clock' = 0 /\ log' = <<>>
       ELSE UNCHANGED <<clock, log>>
    /\ ret' = "None"
    /\ got' = 0
    /\ UNCHANGED <<posVars, call, animations, active_name, image, timers, play>>

\* play_animation, lines 126-143
PlayAnimation(name) ==
    /\ app = "none"
    /\ Len(timers) < MaxTimers
    /\ active_name' = name
    /\ IF name \notin DOMAIN animations
       THEN /\ ret' = "KeyError"
            /\ UNCHANGED <<timers, play, clock, log, dirty>>
       ELSE LET l == animations[name]
                fs == heap[l]
            IN  IF Len(fs) = 0
                THEN /\ ret' = "IndexError"
                     /\ UNCHANGED <<timers, play, clock, log, dirty>>
                ELSE /\ ret' = "None"
                     /\ timers' = Append(timers, [delay |-> FirstDelay(fs), frames |-> l, index |-> 0])
                     /\ play' = [name |-> name, frames |-> l, solo |-> (timers = <<>>)]
                     /\ clock' = 0
                     /\ log' = <<>>
                     /\ dirty' = FALSE
    /\ got' = 0
    /\ UNCHANGED <<posVars, call, heap, animations, image>>

\* the event loop runs the callback due first: run(frame_index), lines 129-141
\* (a frame_index past the end of a list shrunk meanwhile raises IndexError
\* inside the callback: nothing is displayed, nothing is scheduled)
TimerFire ==
    /\ timers # <<>>
    /\ LET t == timers[DueIndex(timers)]
           fs == heap[t.frames]
           \* a playback's callback was scheduled when its last image was displayed
           \* (at the call for run(0)), to run after the delay it was given then
           now == clock + (IF t.index = 0 THEN FirstDelay(fs) ELSE NextDelay(fs, t.index - 1))
           traced == play.solo /\ ~dirty
       IN  IF t.index >= Len(fs)
           THEN /\ timers' = Remaining(timers)
                /\ UNCHANGED <<image, log, clock>>
           ELSE /\ image' = fs[t.index + 1].filename
                /\ clock' = IF traced THEN now ELSE clock
                /\ log' = IF traced
                          THEN Append(log, [at |-> now, image |-> fs[t.index + 1].filename])
                          ELSE log
                /\ timers' = IF RunSchedulesNext(fs, t.index)
                             THEN Append(Remaining(timers),
                                         [delay |-> NextDelay(fs, t.index),
                                          frames |-> t.frames, index |-> t.index + 1])
                             ELSE Remaining(timers)
    /\ call' = AfterCall
    /\ ret' = "None"
    /\ UNCHANGED <<posVars, heap, animations, active_name, play, dirty, got>>

\* the demos' event loop runs the callback run of the idle animation when it is due
RunDue ==
    /\ app # "none"
    /\ Due(timers)
    /\ TimerFire

NextPos ==
    \/ \E p \in Positions : SetPosition(p)
    \/ \E o \in Offsets : Move(o)
    \/ \E k \in Keys : HandleKeypress(k)
    \/ \E k \in Keys : OnKeypress(k)
    \/ Show
    \/ Tick
    \/ LabelCallback
    \/ RunDue

SpecPos == InitPos /\ [][NextPos]_vars

NextReg ==
    \/ \E a \in AnimationArgs(heap) : RegisterAnimations(a)
    \/ \E n \in Names : GetAnimationFrames(n)
    \/ \E l \in 1 .. Len(heap), op \in ListOps : MutateList(l, op)

SpecReg == InitReg /\ [][NextReg]_vars

\* Character.__init__ with animations, lines 113-114: the constructor registers
\* them; a Character exists only if that raised nothing
InitPlay ==
    /\ app = "none"
    /\ frame = Frame(2, 2)
    /\ grid_cells = NoGrid
    /\ position = <<0, 0>>
    /\ placement = Unplaced
    /\ call = [op |-> "__init__", arg |-> <<0, 0>>]
    /\ ret = "None"
    /\ label = [text |-> <<0, 0>>, color |-> DEFAULT_COLOR, timers |-> <<>>]
    /\ \E args \in {<<>>} \cup AnimationArgs(<<>>) :
            LET r == RegisterLoop(EmptyRegistry, <<>>, args)
            IN  /\ \A i \in 1 .. Len(args) : ~AnimationRaises(FramesOf(<<>>, args[i]))
                /\ ~r.raised
                /\ heap = r.heap
                /\ animations = r.animations
    /\ active_name = "None"
    /\ image = "none"
    /\ timers = <<>>
    /\ play = NoPlay
    /\ clock = 0
    /\ log = <<>>
    /\ dirty = FALSE
    /\ got = 0

NextPlay ==
    \/ \E n \in Names : PlayAnimation(n)
    \/ TimerFire
    \/ \E l \in 1 .. Len(heap), op \in ListOps : MutateList(l, op)

SpecPlay == InitPlay /\ [][NextPlay]_vars

----------------------------------------------------------------------------
(* Vocabulary of the positioning claims *)

PositioningOps == {"set_position", "move"}

\* the cell (row, col) exists in the list of lists
CellExists(g, p) ==
    /\ 0 <= p[1] /\ p[1] < NumRows(g)
    /\ 0 <= p[2] /\ p[2] < g.rows[p[1] + 1]

\* the target is outside the grid: row < 0, col < 0, row >= the number of
\* rows, or col >= the number of columns of the target's row: the grid has no
\* cell there
OutsideGrid(g, p) == ~CellExists(g, p)

\* the position a call asks for, given the position stored when it is made
Requested(c, cur) ==
    IF c.op = "move" THEN <<cur[1] + c.arg[1], cur[2] + c.arg[2]>> ELSE c.arg

\* where the widget belongs for a position: on the cell in grid mode, at the
\* pixel in frame mode
LocationOf(g, p) == IF ~g.none THEN CellPlacement(p) ELSE FramePlacement(p)

----------------------------------------------------------------------------
(* C1 as stated: in grid mode, a set_position or move whose target lies     *)
(* outside the grid (row < 0, col < 0, row >= number of rows, col >= number *)
(* of columns: no cell of the grid is at the target) returns False and      *)
(* changes neither the stored position nor the placement.                   *)
C1_OutsideGridRejected ==
    [][ ( /\ ~grid_cells.none
          /\ call'.op \in PositioningOps
          /\ OutsideGrid(grid_cells, Requested(call', position)) )
        => ( ret' = "False" /\ position' = position /\ placement' = placement )
      ]_vars

\* the failing case: the widget stands on a cell, and a set_position whose
\* target is outside the grid was not refused: the stored position is now
\* that target
C1_Witness ==
    /\ ~grid_cells.none
    /\ call.op = "set_position"
    /\ ret # "False"
    /\ OutsideGrid(grid_cells, call.arg)
    /\ position = call.arg
    /\ placement.in_ = "master"
    /\ placement.cell # position

\* C1, the targets set_position's own test covers (row < 0, col < 0, row >=
\* the number of rows, col >= the length of the FIRST row) are refused and
\* change nothing
C1_OutsideFirstRowBoundsRejected ==
    [][ ( /\ ~grid_cells.none
          /\ call'.op \in PositioningOps
          /\ LET t == Requested(call', position)
             IN  \/ t[1] < 0 \/ t[2] < 0 \/ t[1] >= NumRows(grid_cells)
                 \/ t[2] >= RowLen(grid_cells, 0) )
        => ( ret' = "False" /\ position' = position /\ placement' = placement )
      ]_vars

(* C3 as stated: a Character that positioning works on (a call returned     *)
(* instead of raising) has exactly one of frame and grid_cells set.         *)
C3_ExactlyOneOfFrameAndGrid ==
    (call.op \in PositioningOps /\ ret \in {"True", "False"})
        => (frame.none # grid_cells.none)

(* C3, amended: a Character that positioning works on has AT LEAST one of   *)
(* frame and grid_cells set; with both set it is a grid-mode Character: the *)
(* frame is ignored, True is returned only for a cell inside the bounds     *)
(* test and the widget is placed on cells, never in the frame.              *)
C3_AtLeastOneOfFrameAndGrid ==
    /\ (call.op \in PositioningOps /\ ret \in {"True", "False"})
            => ~(frame.none /\ grid_cells.none)
    /\ (~frame.none /\ ~grid_cells.none /\ call.op \in PositioningOps)
            => /\ ret \in {"True", "False"}
               /\ placement.in_ \in {"unplaced", "master"}
               /\ ret = "True" => /\ position[1] \in 0 .. NumRows(grid_cells) - 1
                                  /\ position[2] \in 0 .. RowLen(grid_cells, 0) - 1

\* a Character built with both a frame and a grid was positioned on a cell
C3_Witness ==
    /\ ~frame.none /\ ~grid_cells.none
    /\ call.op = "set_position" /\ ret = "True"
    /\ placement = CellPlacement(call.arg)

(* C6: move((dx, dy)) does what set_position((x + dx, y + dy)) does from    *)
(* the same state: same result, same stored position, same placement.      *)
C6_MoveIsSetPosition ==
    [][ call'.op = "move" =>
            LET r == SetPositionResult(grid_cells, frame, position, placement,
                        <<position[1] + call'.arg[1], position[2] + call'.arg[2]>>)
            IN  ret' = r.ret /\ position' = r.position /\ placement' = r.placement
      ]_vars

\* a move by an offset with different components was applied
C6_Witness ==
    /\ call.op = "move" /\ ret = "True"
    /\ call.arg[1] # call.arg[2]
    /\ placement = LocationOf(grid_cells, position)

(* C7 as stated: set_position returns True exactly when the position was    *)
(* applied: on True the stored position is the argument and the widget is   *)
(* placed at that position's location (the target cell in grid mode, rows   *)
(* of different lengths included; the pixel in frame mode); on False        *)
(* neither the stored position nor the placement changed.                   *)
C7_TrueIffApplied ==
    [][ call'.op = "set_position" =>
            /\ ret' = "True" => ( /\ position' = call'.arg
                                  /\ placement' = LocationOf(grid_cells, call'.arg) )
            /\ ret' = "False" => ( position' = position /\ placement' = placement )
      ]_vars

\* the failing case: True returned for a cell that does not exist, the widget left where it was
C7_Witness ==
    /\ call.op = "set_position" /\ ret = "True"
    /\ ~grid_cells.none
    /\ ~CellExists(grid_cells, call.arg)
    /\ position = call.arg
    /\ placement # CellPlacement(call.arg)

(* C8: on a Character built with neither frame nor grid_cells, every        *)
(* set_position and every move raises RuntimeError instead of returning a   *)
(* boolean.                                                                 *)
C8_NoLayoutRaises ==
    (frame.none /\ grid_cells.none /\ call.op \in PositioningOps)
        => ret = "RuntimeError"

\* a move on a Character with no layout raised
C8_Witness ==
    /\ frame.none /\ grid_cells.none
    /\ call.op = "move"
    /\ ret = "RuntimeError"

(* C9: in frame mode (frame set, grid_cells None) every set_position and    *)
(* every move returns True and stores the requested position, whatever the *)
(* integers (negative, beyond the frame's size); so exemple2's key handler  *)
(* never takes its invalid-move branch (the label never flashes).           *)
C9_FrameModeUnbounded ==
    [][ (~frame.none /\ grid_cells.none /\ call'.op \in PositioningOps)
        => /\ ret' = "True"
           /\ position' = Requested(call', position)
           /\ placement' = FramePlacement(position')
           /\ label'.color = DEFAULT_COLOR
           /\ label'.timers = <<>>
      ]_vars

\* exemple2: the character was walked out of the play area, right of it and above it
C9_Witness ==
    /\ app = "exemple2"
    /\ call.op = "move" /\ ret = "True"
    /\ position[1] > PLAY_AREA_WIDTH
    /\ position[2] < 0
    /\ label.text = position

----------------------------------------------------------------------------
(* Vocabulary of the registry and playback claims *)

ValueErrors == {"ValueError: empty", "ValueError: duplicate"}

\* a playback started with no other callback pending, whose list nobody touched since
UndisturbedPlayback == play.name # "None" /\ play.solo /\ ~dirty

(* C2 as stated: in every reachable state every registered animation has at *)
(* least one frame, whatever was done since its registration (registration, *)
(* get_animation_frames, a caller mutating a list it passed in or got back). *)
C2_RegisteredAnimationsNonEmpty ==
    \A n \in DOMAIN animations : Len(heap[animations[n]]) >= 1

\* the failing case: a registered animation left without frames by its caller
C2_Witness ==
    /\ DOMAIN animations # {}
    /\ \E n \in DOMAIN animations : heap[animations[n]] = <<>>

(* C4: names are unique in the registry: no step ever changes the list a    *)
(* registered name maps to; a registration that names a registered name (or *)
(* the same name twice) raises ValueError; a name that enters the registry  *)
(* maps to the list of the first animation of the call that bears it.       *)
C4_NamesUniqueFirstWins ==
    [][ /\ \A n \in DOMAIN animations :
                n \in DOMAIN animations' /\ animations'[n] = animations[n]
        /\ animations' # animations \/ ret' \in ValueErrors =>
            \A a \in AnimationArgs(heap) : RegisterAnimations(a) =>
                /\ ( \E i \in 1 .. Len(a) :
                        \/ a[i].name \in DOMAIN animations
                        \/ \E j \in 1 .. i - 1 : a[j].name = a[i].name )
                      => ret' \in ValueErrors
                /\ \A n \in DOMAIN animations' \ DOMAIN animations :
                        \E i \in 1 .. Len(a) :
                            /\ a[i].name = n
                            /\ \A j \in 1 .. i - 1 : a[j].name # n
                            /\ heap'[animations'[n]] = FramesOf(heap, a[i])
                            /\ IF a[i].frames.id = 0
                               THEN animations'[n] \notin 1 .. Len(heap)
                               ELSE animations'[n] = a[i].frames.id
      ]_vars

\* a duplicate registration was refused while both names map to different lists
C4_Witness ==
    /\ ret = "ValueError: duplicate"
    /\ DOMAIN animations = Names
    /\ animations["idle"] # animations["blink"]
    /\ heap[animations["idle"]] # heap[animations["blink"]]

(* C5: after play_animation on a registered animation with frames           *)
(* f0..f(n-1), no other playback in progress, the displayed images are      *)
(* f0, f1, ... in that order, each once; while frames remain exactly one     *)
(* callback is pending, for the next frame; once f(n-1) is shown none is:   *)
(* the playback ends and does not loop (n = 1 included).                    *)
C5_FramesInOrderThenStop ==
    UndisturbedPlayback =>
        LET fs == heap[play.frames]
            k == Len(log)
        IN  /\ k <= Len(fs)
            /\ \A i \in 1 .. k : log[i].image = fs[i].filename
            /\ k >= 1 => image = fs[k].filename
            /\ IF k = Len(fs)
               THEN timers = <<>>
               ELSE /\ Len(timers) = 1
                    /\ timers[1].frames = play.frames
                    /\ timers[1].index = k

\* a playback of two frames ran to its end
C5_Witness ==
    /\ UndisturbedPlayback
    /\ Len(heap[play.frames]) = 2
    /\ Len(log) = 2
    /\ log[1].image # log[2].image
    /\ timers = <<>>

\* a playback of a single frame ran to its end
C5_WitnessOneFrame ==
    /\ UndisturbedPlayback
    /\ Len(heap[play.frames]) = 1
    /\ Len(log) = 1
    /\ timers = <<>>

(* C10 as stated: a frame's duration is the time it is displayed: frame 0   *)
(* is the displayed image from the play_animation call on (time 0), and     *)
(* frame i + 1 replaces frame i exactly frames[i].duration ms after frame i *)
(* appeared.                                                                *)
C10_DurationIsDisplayTime ==
    UndisturbedPlayback =>
        LET fs == heap[play.frames]
        IN  /\ Len(log) >= 1
            /\ log[1].at = 0
            /\ \A i \in 1 .. Len(log) - 1 : log[i + 1].at - log[i].at = fs[i].duration

\* the failing case: frame 0 appeared only frames[0].duration ms after the call
C10_Witness ==
    /\ UndisturbedPlayback
    /\ Len(log) >= 1
    /\ log[1].at = heap[play.frames][1].duration
    /\ log[1].at > 0

(* C11 as stated: a grid-mode Character whose position is inside the grid   *)
(* (a cell exists at (row, col)) stays inside it: no step takes the         *)
(* position from a cell of the grid to a (row, col) where the grid has no   *)
(* cell. Every position inside the grid is a possible constructor position, *)
(* so this is the claim's "inside at construction, inside ever after"; in   *)
(* exemple1 it reads 0 <= row <= 5 and 0 <= col <= 5.                       *)
C11_PositionStaysInGrid ==
    [][ ( ~grid_cells.none /\ CellExists(grid_cells, position) )
            => CellExists(grid_cells, position')
      ]_vars

\* the failing case: a move from a cell of the grid was accepted although the
\* grid has no cell at its target, and the position now names that place
C11_Witness ==
    /\ ~grid_cells.none
    /\ call.op = "move" /\ ret = "True"
    /\ position # <<position[1] - call.arg[1], position[2] - call.arg[2]>>
    /\ CellExists(grid_cells, <<position[1] - call.arg[1], position[2] - call.arg[2]>>)
    /\ ~CellExists(grid_cells, position)

\* C11, the grid demo alone: on exemple1's square grid the player's position
\* keeps 0 <= row <= 5 and 0 <= col <= 5 whatever keys are pressed
C11_Exemple1InGrid ==
    app = "exemple1" =>
        /\ position[1] \in 0 .. GRID_DIMENSION - 1
        /\ position[2] \in 0 .. GRID_DIMENSION - 1

\* the grid demo's player stands in the far corner of the grid and a key that
\* would take it off the grid was refused
C11_Exemple1Witness ==
    /\ app = "exemple1"
    /\ position = <<GRID_DIMENSION - 1, GRID_DIMENSION - 1>>
    /\ call.op = "move" /\ ret = "False"

====
